---- MODULE Spec2Model ----
(***************************************************************************)
(* Model of python-progressbar's stream interception layer                 *)
(* (progressbar/utils.py: WrappingIO, StreamWrapper) and of its terminal   *)
(* colour model (progressbar/terminal/base.py).                            *)
(***************************************************************************)
EXTENDS Integers, Sequences, FiniteSets, TLC

(* ----------------------------- bounds ---------------------------------- *)
\* nesting depth of wrap_stdout()/wrap_stderr() calls per stream
MaxWrap == 2
\* characters written to the two streams together
MaxLen == 2
\* highest value of StreamWrapper.capturing
MaxCapturing == 2
\* how far below 0 unmatched stop_capturing() calls may take the count
MaxUnderflow == 0
\* colours given to one ColorGradient
MaxColors == 3
\* get_color is given the values k/VDen
VDen == 8
\* colours given to a ColorGradient used on its own
MaxStops == 4
\* a ColorGradient used on its own is given the values k/Steps
Steps == 10
\* calls of Colors.register
MaxRegistered == 3

(* --------------------------- vocabulary -------------------------------- *)
Streams == {"stdout", "stderr"}
Bars == {"bar1", "bar2"}
None == "None"
\* the arguments start_capturing() and stop_capturing() are given
SessionBars == {"bar1", None}
NL == "\n"
\* the values handed to write(): one without and one with a newline
Chunks == {<<"a">>, <<NL>>}
\* what the default exception hook prints to sys.stderr
Traceback == <<"t", NL>>
\* io.UnsupportedOperation raised by the target's write() or flush(), or not
Faults == {"ok", "write", "flush"}
NoFault == [s \in Streams |-> "ok"]
\* what a handle refers to: the stream found by StreamWrapper.__init__, or the
\* WrappingIO StreamWrapper created last for it
Original == "original"
Wrapping == "WrappingIO"

(* ----------------------------- state ----------------------------------- *)
VARIABLES
    \* StreamWrapper.stdout / .stderr
    stream,
    \* sys.stdout / sys.stderr, the process-wide handles
    sys_stream,
    \* the WrappingIO that StreamWrapper.stdout / .stderr refers to
    wio,
    \* StreamWrapper.wrapped_stdout / .wrapped_stderr
    wrapped,
    \* StreamWrapper.wrapped_excepthook, sys.excepthook
    wrapped_excepthook, sys_excepthook,
    \* StreamWrapper.capturing, StreamWrapper.listeners
    capturing, listeners,
    \* the original streams: text received, and whether text awaits a flush
    target, unflushed,
    \* history: the listeners whose update() the last call ran
    notified,
    \* history: wrap calls not yet matched by an unwrap call, and whether the
    \* WrappingIO the outermost of them installed is still StreamWrapper's
    \* ("none", "current" or "replaced")
    depth, first,
    \* history of an object used on its own: the method called last, and
    \* whether it raised
    last_call, raised,
    \* terminal.base.color_support, the module-wide colour support level
    color_support,
    \* ColorGradient.colors and ColorGradient.interpolate of the gradient in use
    colors, interpolate,
    \* the Color built or returned last, where it came from ("Color",
    \* "get_color", or "ValueError" when get_color raised), and the payload
    \* its ansi property gave (ansi_read) since then
    color, origin, ansi, ansi_read,
    \* history: the value get_color was given last (Null when the colour did
    \* not come from a gradient)
    last_value,
    \* a second Color, the arguments of the call made last on an object used
    \* on its own, and what that call returned
    other, args, returned,
    \* os.environ, the variables from_env() reads
    environ,
    \* Colors.by_name, by_lowername, by_hex, by_rgb, by_hls, by_xterm
    by_name, by_lowername, by_hex, by_rgb, by_hls, by_xterm,
    \* history: the colours Colors.register returned, in call order
    registered,
    \* LastLineStream.line, and history: Some(the data written last), Null
    \* when nothing was written or the line was truncated since
    line, written

wrapperVars == <<stream, sys_stream, wio, wrapped, wrapped_excepthook,
                 sys_excepthook, capturing, listeners, target, unflushed,
                 notified, depth, first>>

streamVars == <<wrapperVars, last_call, raised>>

colorVars == <<color_support, colors, interpolate, color, origin, ansi, ansi_read>>

unitVars == <<last_value, other, args, returned>>

registryVars == <<by_name, by_lowername, by_hex, by_rgb, by_hls, by_xterm, registered>>

lineVars == <<line, written>>

\* what the stream wrapper and the colours of one gradient leave alone
termVars == <<unitVars, environ, registryVars, lineVars>>

vars == <<streamVars, colorVars, termVars>>

(* --------------------------- WrappingIO -------------------------------- *)
HasNewline(value) == \E i \in DOMAIN value : value[i] = NL

\* WrappingIO.__init__: `listeners or set()` keeps the caller's set only
\* when it is non-empty, an empty one is replaced by a private set
WrappingIO_init(lst) ==
    [buffer |-> <<>>, capturing |-> FALSE, shared |-> (lst # {}),
     needs_clear |-> FALSE]

\* WrappingIO.listeners as seen at the time of a write
WioListeners(w, lst) == IF w.shared THEN lst ELSE {}

\* a write that, while capturing, also passes the value on to the target
WrappingIO_write_tee(w, tgt, unfl, value, lst, fault) ==
    [wio |-> [w EXCEPT !.buffer = IF w.capturing THEN w.buffer \o value ELSE w.buffer,
                       !.needs_clear = (w.needs_clear \/ (w.capturing /\ HasNewline(value)))],
     target |-> tgt \o value, unflushed |-> TRUE,
     notified |-> IF w.capturing /\ HasNewline(value) THEN WioListeners(w, lst) ELSE {},
     raised |-> FALSE]

\* WrappingIO.write: the new WrappingIO, the target, the listeners whose
\* update() ran, and whether the target raised
WrappingIO_write(w, tgt, unfl, value, lst, fault) ==
    IF w.capturing
    THEN [wio |-> [w EXCEPT !.buffer = w.buffer \o value,
                            !.needs_clear = (w.needs_clear \/ HasNewline(value))],
          target |-> tgt, unflushed |-> unfl,
          notified |-> IF HasNewline(value) THEN WioListeners(w, lst) ELSE {},
          raised |-> FALSE]
    ELSE IF fault = "write"
    THEN [wio |-> w, target |-> tgt, unflushed |-> unfl, notified |-> {},
          raised |-> TRUE]
    ELSE [wio |-> w, target |-> tgt \o value,
          unflushed |-> ~(HasNewline(value) /\ fault = "ok"),
          notified |-> {},
          raised |-> (HasNewline(value) /\ fault = "flush")]

\* WrappingIO.flush: io.StringIO.flush() changes nothing
WrappingIO_flush(w) == w

\* a _flush that forgets to truncate the buffer
WrappingIO__flush_keep(w, tgt, unfl, fault) ==
    [wio |-> [w EXCEPT !.needs_clear = FALSE], target |-> tgt \o w.buffer,
     unflushed |-> FALSE, raised |-> FALSE]

\* WrappingIO._flush followed by flush_target
WrappingIO__flush(w, tgt, unfl, fault) ==
    IF w.buffer # <<>> /\ fault = "write"
    THEN [wio |-> WrappingIO_flush(w), target |-> tgt, unflushed |-> unfl, raised |-> TRUE]
    ELSE LET w1 == IF w.buffer # <<>>
                   THEN [WrappingIO_flush(w) EXCEPT !.buffer = <<>>, !.needs_clear = FALSE]
                   ELSE w
             t1 == tgt \o w.buffer
             u1 == unfl \/ (w.buffer # <<>>)
         IN  IF fault = "flush"
             THEN [wio |-> w1, target |-> t1, unflushed |-> u1, raised |-> TRUE]
             ELSE [wio |-> w1, target |-> t1, unflushed |-> FALSE, raised |-> FALSE]

(* -------------------------- StreamWrapper ------------------------------ *)
IsWrappingIO(x) == x = Wrapping

\* StreamWrapper.flush, given the wrap counts, the WrappingIOs and the targets
\* at the time of the call; f[s] is what the target of s does
StreamWrapper_flush(wr, w, tgt, unfl, f) ==
    LET r(s) == IF wr[s] > 0 /\ IsWrappingIO(stream[s])
                THEN WrappingIO__flush(w[s], tgt[s], unfl[s], f[s])
                ELSE [wio |-> w[s], target |-> tgt[s], unflushed |-> unfl[s],
                      raised |-> FALSE]
    IN  [wio |-> [s \in Streams |-> r(s).wio],
         target |-> [s \in Streams |-> r(s).target],
         unflushed |-> [s \in Streams |-> r(s).unflushed],
         wrapped |-> [s \in Streams |-> IF r(s).raised THEN 0 ELSE wr[s]],
         caught |-> {s \in Streams : r(s).raised}]

\* StreamWrapper.update_capturing with self.capturing = cap
update_capturing(cap, f) ==
    LET w1 == [s \in Streams |->
                 IF IsWrappingIO(stream[s])
                 THEN [wio[s] EXCEPT !.capturing = (cap > 0)]
                 ELSE wio[s]]
    IN  IF cap <= 0
        THEN StreamWrapper_flush(wrapped, w1, target, unflushed, f)
        ELSE [wio |-> w1, target |-> target, unflushed |-> unflushed,
              wrapped |-> wrapped, caught |-> {}]

\* the state a flush leaves behind
Flushed(r) ==
    /\ wio' = r.wio
    /\ target' = r.target
    /\ unflushed' = r.unflushed
    /\ wrapped' = r.wrapped

start_capturing(bar, f) ==
    /\ capturing < MaxCapturing
    /\ listeners' = IF bar # None THEN listeners \cup {bar} ELSE listeners
    /\ capturing' = capturing + 1
    /\ Flushed(update_capturing(capturing + 1, f))
    /\ notified' = {}
    /\ UNCHANGED <<stream, sys_stream, wrapped_excepthook, sys_excepthook,
                   depth, first, last_call, raised, colorVars, termVars>>

stop_capturing(bar, f) ==
    /\ capturing > -MaxUnderflow
    /\ listeners' = IF bar # None THEN listeners \ {bar} ELSE listeners
    /\ capturing' = capturing - 1
    /\ Flushed(update_capturing(capturing - 1, f))
    /\ notified' = {}
    /\ UNCHANGED <<stream, sys_stream, wrapped_excepthook, sys_excepthook,
                   depth, first, last_call, raised, colorVars, termVars>>

\* StreamWrapper.wrap_excepthook
wrap_excepthook ==
    IF wrapped_excepthook = 0
    THEN wrapped_excepthook' = wrapped_excepthook + 1 /\ sys_excepthook' = "wrapped"
    ELSE UNCHANGED <<wrapped_excepthook, sys_excepthook>>

\* StreamWrapper.wrap_stdout / wrap_stderr
wrap_std(s) ==
    /\ depth[s] < MaxWrap
    /\ wrap_excepthook
    /\ IF wrapped[s] = 0
       THEN /\ stream' = [stream EXCEPT ![s] = Wrapping]
            /\ sys_stream' = [sys_stream EXCEPT ![s] = Wrapping]
            /\ wio' = [wio EXCEPT ![s] = WrappingIO_init(listeners)]
            /\ first' = [first EXCEPT ![s] = IF depth[s] = 0 THEN "current"
                                             ELSE "replaced"]
       ELSE UNCHANGED <<stream, sys_stream, wio, first>>
    /\ wrapped' = [wrapped EXCEPT ![s] = wrapped[s] + 1]
    /\ depth' = [depth EXCEPT ![s] = depth[s] + 1]
    /\ notified' = {}
    /\ UNCHANGED <<capturing, listeners, target, unflushed, last_call, raised, colorVars, termVars>>

wrap_stdout == wrap_std("stdout")
wrap_stderr == wrap_std("stderr")

\* an unwrap that restores the original stream whatever the count
unwrap_std_no_count(s) ==
    /\ sys_stream' = [sys_stream EXCEPT ![s] = Original]
    /\ wrapped' = [wrapped EXCEPT ![s] = IF wrapped[s] > 1 THEN wrapped[s] - 1 ELSE 0]
    /\ depth' = [depth EXCEPT ![s] = IF depth[s] > 0 THEN depth[s] - 1 ELSE 0]
    /\ first' = [first EXCEPT ![s] = IF depth[s] > 1 THEN first[s] ELSE "none"]
    /\ notified' = {}
    /\ UNCHANGED <<stream, wio, wrapped_excepthook, sys_excepthook, capturing,
                   listeners, target, unflushed, last_call, raised, colorVars, termVars>>

\* StreamWrapper.unwrap_stdout / unwrap_stderr
unwrap_std(s) ==
    /\ IF wrapped[s] > 1
       THEN /\ wrapped' = [wrapped EXCEPT ![s] = wrapped[s] - 1]
            /\ UNCHANGED sys_stream
       ELSE /\ sys_stream' = [sys_stream EXCEPT ![s] = Original]
            /\ wrapped' = [wrapped EXCEPT ![s] = 0]
    /\ depth' = [depth EXCEPT ![s] = IF depth[s] > 0 THEN depth[s] - 1 ELSE 0]
    /\ first' = [first EXCEPT ![s] = IF depth[s] > 1 THEN first[s] ELSE "none"]
    /\ notified' = {}
    /\ UNCHANGED <<stream, wio, wrapped_excepthook, sys_excepthook, capturing,
                   listeners, target, unflushed, last_call, raised, colorVars, termVars>>

unwrap_stdout == unwrap_std("stdout")
unwrap_stderr == unwrap_std("stderr")

\* StreamWrapper.unwrap_excepthook
unwrap_excepthook ==
    /\ IF wrapped_excepthook # 0
       THEN wrapped_excepthook' = wrapped_excepthook - 1 /\ sys_excepthook' = "original"
       ELSE UNCHANGED <<wrapped_excepthook, sys_excepthook>>
    /\ notified' = {}
    /\ UNCHANGED <<stream, sys_stream, wio, wrapped, capturing, listeners,
                   target, unflushed, depth, first, last_call, raised, colorVars, termVars>>

\* StreamWrapper.flush, as registered with atexit and called by the bars
flush(f) ==
    /\ Flushed(StreamWrapper_flush(wrapped, wio, target, unflushed, f))
    /\ notified' = {}
    /\ UNCHANGED <<stream, sys_stream, wrapped_excepthook, sys_excepthook,
                   capturing, listeners, depth, first, last_call, raised, colorVars, termVars>>

\* a write through the process-wide handle of s: straight to the original
\* stream, or WrappingIO.write
handle_write(s, value, fault) ==
    IF IsWrappingIO(sys_stream[s])
    THEN WrappingIO_write(wio[s], target[s], unflushed[s], value, listeners, fault)
    ELSE IF fault = "write"
    THEN [wio |-> wio[s], target |-> target[s], unflushed |-> unflushed[s],
          notified |-> {}, raised |-> TRUE]
    ELSE [wio |-> wio[s], target |-> target[s] \o value, unflushed |-> TRUE,
          notified |-> {}, raised |-> FALSE]

\* the text the two streams hold, buffered or delivered, leaves room for value
Room(value) ==
    Len(target["stdout"]) + Len(wio["stdout"].buffer)
      + Len(target["stderr"]) + Len(wio["stderr"].buffer) + Len(value) <= MaxLen

\* sys.stdout.write(value) / sys.stderr.write(value)
write(s, value, fault) ==
    LET r == handle_write(s, value, fault) IN
    /\ Room(value)
    /\ wio' = [wio EXCEPT ![s] = r.wio]
    /\ target' = [target EXCEPT ![s] = r.target]
    /\ unflushed' = [unflushed EXCEPT ![s] = r.unflushed]
    /\ notified' = r.notified
    /\ UNCHANGED <<stream, sys_stream, wrapped, wrapped_excepthook,
                   sys_excepthook, capturing, listeners, depth, first, last_call, raised, colorVars, termVars>>

\* sys.stdout.flush() / sys.stderr.flush(): WrappingIO.flush when wrapped
sys_flush(s) ==
    /\ IF IsWrappingIO(sys_stream[s])
       THEN wio' = [wio EXCEPT ![s] = WrappingIO_flush(wio[s])] /\ UNCHANGED unflushed
       ELSE unflushed' = [unflushed EXCEPT ![s] = FALSE] /\ UNCHANGED wio
    /\ notified' = {}
    /\ UNCHANGED <<stream, sys_stream, wrapped, wrapped_excepthook,
                   sys_excepthook, capturing, listeners, target, depth, first,
                   last_call, raised, colorVars, termVars>>

\* WrappingIO._flush called on the WrappingIO of s by its holder
wio__flush(s, fault) ==
    LET r == WrappingIO__flush(wio[s], target[s], unflushed[s], fault) IN
    /\ IsWrappingIO(stream[s])
    /\ wio' = [wio EXCEPT ![s] = r.wio]
    /\ target' = [target EXCEPT ![s] = r.target]
    /\ unflushed' = [unflushed EXCEPT ![s] = r.unflushed]
    /\ notified' = {}
    /\ UNCHANGED <<stream, sys_stream, wrapped, wrapped_excepthook,
                   sys_excepthook, capturing, listeners, depth, first, last_call, raised, colorVars, termVars>>

\* a hook that flushes before it calls the original hook
excepthook_flush_first(f) ==
    LET fl == StreamWrapper_flush(wrapped, wio, target, unflushed, f)
        r == WrappingIO_write(fl.wio["stderr"], fl.target["stderr"],
                              fl.unflushed["stderr"], Traceback, listeners, "ok")
    IN
    /\ sys_excepthook = "wrapped"
    /\ IsWrappingIO(sys_stream["stderr"])
    /\ Room(Traceback)
    /\ wio' = [fl.wio EXCEPT !["stderr"] = r.wio]
    /\ target' = [fl.target EXCEPT !["stderr"] = r.target]
    /\ unflushed' = [fl.unflushed EXCEPT !["stderr"] = r.unflushed]
    /\ wrapped' = fl.wrapped
    /\ notified' = r.notified
    /\ UNCHANGED <<stream, sys_stream, wrapped_excepthook, sys_excepthook,
                   capturing, listeners, depth, first, last_call, raised, colorVars, termVars>>

\* StreamWrapper.excepthook, reached through sys.excepthook: the original
\* hook prints the traceback to sys.stderr, then StreamWrapper.flush
excepthook(f) ==
    LET r == handle_write("stderr", Traceback, "ok")
        w1 == [wio EXCEPT !["stderr"] = r.wio]
        t1 == [target EXCEPT !["stderr"] = r.target]
        u1 == [unflushed EXCEPT !["stderr"] = r.unflushed]
    IN
    /\ sys_excepthook = "wrapped"
    /\ Room(Traceback)
    /\ Flushed(StreamWrapper_flush(wrapped, w1, t1, u1, f))
    /\ notified' = r.notified
    /\ UNCHANGED <<stream, sys_stream, wrapped_excepthook, sys_excepthook,
                   capturing, listeners, depth, first, last_call, raised, colorVars, termVars>>

(* --------------------------- terminal colours -------------------------- *)
\* ColorSupport
NONE == 0
XTERM == 16
XTERM_256 == 256
XTERM_TRUECOLOR == 16777216
ColorSupports == {NONE, XTERM, XTERM_256, XTERM_TRUECOLOR}

\* an optional value: Null for Python's None, Some(x) for x
Null == <<>>
Some(x) == <<x>>

\* exact fractions <<numerator, denominator>> for Python's floats
Frac(n, d) == <<n, d>>
RECURSIVE GCD(_, _)
GCD(a, b) == IF b = 0 THEN a ELSE GCD(b, a % b)
Abs(n) == IF n < 0 THEN -n ELSE n
Norm(x) ==
    LET g == GCD(Abs(x[1]), Abs(x[2]))
        sign == IF x[2] < 0 THEN -1 ELSE 1
    IN  <<sign * (x[1] \div g), sign * (x[2] \div g)>>
FAdd(x, y) == Norm(<<x[1] * y[2] + y[1] * x[2], x[2] * y[2]>>)
FSub(x, y) == Norm(<<x[1] * y[2] - y[1] * x[2], x[2] * y[2]>>)
FMul(x, y) == Norm(<<x[1] * y[1], x[2] * y[2]>>)
FDiv(x, y) == Norm(<<x[1] * y[2], x[2] * y[1]>>)
FEq(x, y) == x[1] * y[2] = y[1] * x[2]
FLess(x, y) == x[1] * y[2] < y[1] * x[2]
\* int(): truncation towards zero
Trunc(x) == IF x[1] >= 0 THEN x[1] \div x[2] ELSE -((-x[1]) \div x[2])
\* round(): to the nearest integer, a tie to the even one
Round(x) ==
    LET q == x[1] \div x[2]
        r == x[1] - q * x[2]
    IN  IF 2 * r < x[2] THEN q
        ELSE IF 2 * r > x[2] THEN q + 1
        ELSE IF q % 2 = 0 THEN q ELSE q + 1

\* python_utils.converters.remap on floats, as get_color calls it
\* Null when it raises ValueError for an empty input or output range
remap(value, old_min, old_max, new_min, new_max) ==
    IF FEq(old_max, old_min) \/ FEq(new_max, new_min)
    THEN Null
    ELSE Some(FAdd(FDiv(FMul(FSub(value, old_min), FSub(new_max, new_min)),
                        FSub(old_max, old_min)),
                   new_min))

\* RGB.to_ansi_16
RGB_to_ansi_16(rgb) ==
    LET red == rgb[1] \div 255
        green == rgb[2] \div 255
        blue == rgb[3] \div 255
    IN  blue * 4 + green * 2 + red

\* RGB.to_ansi_256
RGB_to_ansi_256(rgb) ==
    LET red == Round(Frac(rgb[1] * 5, 255))
        green == Round(Frac(rgb[2] * 5, 255))
        blue == Round(Frac(rgb[3] * 5, 255))
    IN  16 + 36 * red + 6 * green + blue

\* RGB.interpolate
RGB_interpolate(a, b, step) ==
    [i \in 1..3 |-> Trunc(FAdd(Frac(a[i], 1), FMul(Frac(b[i] - a[i], 1), step)))]

\* HLS.interpolate
HLS_interpolate(a, b, step) ==
    [i \in 1..3 |-> FAdd(a[i], FMul(FSub(b[i], a[i]), step))]

\* Color(rgb, hls, name, xterm)
Color(rgb, hls, name, xterm) ==
    [rgb |-> rgb, hls |-> hls, name |-> name, xterm |-> xterm]

\* Python's truth value of Color.xterm: None and 0 are false
Truthy(xterm) == xterm # Null /\ xterm[1] # 0

\* Color.ansi: the fields f'...' joins with ";", Null for None
Color_ansi(c, support) ==
    IF support = XTERM_TRUECOLOR
    THEN Some(<<2, c.rgb[1], c.rgb[2], c.rgb[3]>>)
    ELSE IF Truthy(c.xterm) THEN Some(<<5, c.xterm[1]>>)
    ELSE IF support = XTERM_256 THEN Some(<<5, RGB_to_ansi_256(c.rgb)>>)
    ELSE IF support = XTERM THEN Some(<<5, RGB_to_ansi_16(c.rgb)>>)
    ELSE Null

\* Color.interpolate
Color_interpolate(a, b, step) ==
    Color(RGB_interpolate(a.rgb, b.rgb, step),
          HLS_interpolate(a.hls, b.hls, step),
          IF FLess(step, Frac(1, 2)) THEN a.name ELSE b.name,
          IF FLess(step, Frac(1, 2)) THEN a.xterm ELSE b.xterm)

\* the sentinels base.Undefined and base.UnknownLength
Sentinels == {"Undefined", "UnknownLength"}

\* a get_color that answers a value of 1 or more with the first colour
ColorGradient_get_color_first(cs, interp, value) ==
    IF value \in Sentinels THEN Some(cs[1])
    ELSE IF ~FLess(Frac(0, 1), value) THEN Some(cs[1])
    ELSE IF ~FLess(value, Frac(1, 1)) THEN Some(cs[1])
    ELSE LET max_color_idx == Len(cs) - 1 IN
         IF max_color_idx = 0 THEN Some(cs[1])
         ELSE IF interp
         THEN LET i == remap(value, Frac(0, 1), Frac(1, 1), Frac(0, 1),
                             Frac(max_color_idx - 1, 1)) IN
              IF i = Null THEN Null
              ELSE LET index == Round(i[1])
                       step == remap(value, Frac(index, max_color_idx),
                                     Frac(index + 1, max_color_idx),
                                     Frac(0, 1), Frac(1, 1))
                   IN  Some(Color_interpolate(cs[index + 1], cs[index + 2],
                                              step[1]))
         ELSE LET i == remap(value, Frac(0, 1), Frac(1, 1), Frac(0, 1),
                             Frac(max_color_idx, 1)) IN
              IF i = Null THEN Null ELSE Some(cs[Round(i[1]) + 1])


\* ColorGradient.get_color; cs is ColorGradient.colors, interp whether
\* ColorGradient.interpolate is set. Some(color), or Null when it raises
ColorGradient_get_color(cs, interp, value) ==
    IF value \in Sentinels THEN Some(cs[1])
    ELSE IF ~FLess(Frac(0, 1), value) THEN Some(cs[1])
    ELSE IF ~FLess(value, Frac(1, 1)) THEN Some(cs[Len(cs)])
    ELSE LET max_color_idx == Len(cs) - 1 IN
         IF max_color_idx = 0 THEN Some(cs[1])
         ELSE IF interp
         THEN LET i == remap(value, Frac(0, 1), Frac(1, 1), Frac(0, 1),
                             Frac(max_color_idx - 1, 1)) IN
              IF i = Null THEN Null
              ELSE LET index == Round(i[1])
                       step == remap(value, Frac(index, max_color_idx),
                                     Frac(index + 1, max_color_idx),
                                     Frac(0, 1), Frac(1, 1))
                   IN  Some(Color_interpolate(cs[index + 1], cs[index + 2],
                                              step[1]))
         ELSE LET i == remap(value, Frac(0, 1), Frac(1, 1), Frac(0, 1),
                             Frac(max_color_idx, 1)) IN
              IF i = Null THEN Null ELSE Some(cs[Round(i[1]) + 1])

\* the colours the program is given: RGB(...), HLS(...), a name or None, an
\* xterm index or None
Black == Color(<<0, 0, 0>>, <<Frac(0, 1), Frac(0, 1), Frac(0, 1)>>, "black", Some(0))
Red == Color(<<255, 0, 0>>, <<Frac(0, 1), Frac(50, 1), Frac(100, 1)>>, "red", Some(9))
Olive == Color(<<128, 128, 0>>, <<Frac(60, 1), Frac(25, 1), Frac(100, 1)>>, None, Null)
Palette == {Black, Red, Olive}
ColorInputs ==
    {Color(rgb, <<Frac(0, 1), Frac(0, 1), Frac(0, 1)>>, None, xterm) :
        rgb \in {<<0, 0, 0>>, <<255, 0, 0>>, <<128, 128, 0>>, <<255, 255, 255>>},
        xterm \in {Null, Some(0), Some(9)}}
    \cup Palette
\* the arguments of ColorGradient(*colors): one to MaxColors colours
Gradients == UNION {[1..n -> Palette] : n \in 1..MaxColors}
\* the values get_color is given: the sentinels, and k/VDen from below 0 to above 1
Values == Sentinels \cup {Frac(k, VDen) : k \in -1..(VDen + 1)}

\* color_support forced to a level, as a test or from_env() at import does
force_color_support(support) ==
    /\ color_support' = support
    /\ ansi' = Null
    /\ ansi_read' = FALSE
    /\ UNCHANGED <<colors, interpolate, color, origin>>
    /\ UNCHANGED <<streamVars, termVars>>

\* Color(rgb, hls, name, xterm)
Color_new(c) ==
    /\ color' = c
    /\ origin' = "Color"
    /\ ansi' = Null
    /\ ansi_read' = FALSE
    /\ last_value' = Null
    /\ UNCHANGED <<color_support, colors, interpolate>>
    /\ UNCHANGED <<streamVars, other, args, returned, environ, registryVars, lineVars>>

\* gradient.get_color(value)
get_color(value) ==
    LET r == ColorGradient_get_color(colors, interpolate, value) IN
    /\ colors # <<>>
    /\ IF r = Null
       THEN origin' = "ValueError" /\ UNCHANGED color
       ELSE origin' = "get_color" /\ color' = r[1]
    /\ ansi' = Null
    /\ ansi_read' = FALSE
    /\ last_value' = Some(value)
    /\ UNCHANGED <<color_support, colors, interpolate>>
    /\ UNCHANGED <<streamVars, other, args, returned, environ, registryVars, lineVars>>

\* color.ansi
read_ansi ==
    /\ origin \in {"Color", "get_color"}
    /\ ansi' = Color_ansi(color, color_support)
    /\ ansi_read' = TRUE
    /\ UNCHANGED <<color_support, colors, interpolate, color, origin>>
    /\ UNCHANGED <<streamVars, termVars>>

(* --------------------------- specification ----------------------------- *)
(* ------------------- Color equality, SGR styles ----------------------- *)
\* Color.__eq__: Color defines none, so it is the namedtuple's, field by field
Color_eq(a, b) ==
    /\ a.rgb = b.rgb
    /\ a.hls = b.hls
    /\ a.name = b.name
    /\ a.xterm = b.xterm

\* hash() of an RGB tuple, a function of its three channels
RGB_hash(rgb) == (rgb[1] * 256 + rgb[2]) * 256 + rgb[3]

\* Color.__hash__
Color_hash(c) == RGB_hash(c.rgb)

\* color == other
compare_colors ==
    /\ args' = <<other>>
    /\ returned' = Color_eq(color, other)
    /\ last_call' = "__eq__"
    /\ raised' = FALSE
    /\ UNCHANGED <<wrapperVars, colorVars, last_value, other, environ,
                   registryVars, lineVars>>

\* hash(color), hash(other)
hash_colors ==
    /\ args' = <<other>>
    /\ returned' = <<Color_hash(color), Color_hash(other)>>
    /\ last_call' = "__hash__"
    /\ raised' = FALSE
    /\ UNCHANGED <<wrapperVars, colorVars, last_value, other, environ,
                   registryVars, lineVars>>

\* text is a sequence of characters; ESC is the character '\x1B'
ESC == "ESC"
Digit == <<"0", "1", "2", "3", "4", "5", "6", "7", "8", "9">>
\* str() of a natural number
RECURSIVE Str(_)
Str(n) == IF n < 10 THEN <<Digit[n + 1]>> ELSE Str(n \div 10) \o <<Digit[(n % 10) + 1]>>
\* ';'.join(strs)
RECURSIVE Join(_)
Join(strs) ==
    IF strs = <<>> THEN <<>>
    ELSE IF Len(strs) = 1 THEN strs[1]
    ELSE strs[1] \o <<";">> \o Join(Tail(strs))
\* str() of what Color.ansi returns: the f-string's fields joined, or 'None'
AnsiStr(a) ==
    IF a = Null THEN <<"N", "o", "n", "e">>
    ELSE Join([i \in DOMAIN a[1] |-> Str(a[1][i])])

\* CSI.__call__(*args) with the arguments already passed through str()
CSI_call(strs, code) == <<ESC, "[">> \o Join(strs) \o <<code>>

\* SGR._start_template, SGR._end_template
SGR_start_template(start_code) == CSI_call(<<Str(start_code)>>, "m")
SGR_end_template(end_code) == CSI_call(<<Str(end_code)>>, "m")

\* SGRColor._start_template
SGRColor_start_template(c, support, start_code) ==
    CSI_call(<<Str(start_code), AnsiStr(Color_ansi(c, support))>>, "m")

\* SGR.__call__ of an SGRColor
SGRColor_call(c, support, codes, text) ==
    SGRColor_start_template(c, support, codes[1]) \o text \o SGR_end_template(codes[2])

\* Color.fg, Color.bg, Color.underline: the start and end codes
Styles == [fg |-> <<38, 39>>, bg |-> <<48, 49>>, underline |-> <<58, 59>>]
Texts == {<<>>, <<"a", "b">>}

\* color.fg(text), color.bg(text), color.underline(text)
apply_style(style, text) ==
    /\ args' = <<style, text>>
    /\ returned' = SGRColor_call(color, color_support, Styles[style], text)
    /\ last_call' = "SGRColor"
    /\ raised' = FALSE
    /\ UNCHANGED <<wrapperVars, colorVars, last_value, other, environ,
                   registryVars, lineVars>>

(* -------------------------- Colors registry --------------------------- *)
\* colorsys.rgb_to_hls on the channels divided by 255, as HLS.from_rgb calls it
HLS_from_rgb(rgb) ==
    LET r == Frac(rgb[1], 255)
        g == Frac(rgb[2], 255)
        b == Frac(rgb[3], 255)
        FMax(x, y) == IF FLess(x, y) THEN y ELSE x
        FMin(x, y) == IF FLess(x, y) THEN x ELSE y
        maxc == FMax(r, FMax(g, b))
        minc == FMin(r, FMin(g, b))
        sumc == FAdd(maxc, minc)
        rangec == FSub(maxc, minc)
        l == FDiv(sumc, Frac(2, 1))
    IN  IF FEq(minc, maxc) THEN <<Frac(0, 1), l, Frac(0, 1)>>
        ELSE LET s == IF ~FLess(Frac(1, 2), l)
                      THEN FDiv(rangec, sumc)
                      ELSE FDiv(rangec, FSub(FSub(Frac(2, 1), maxc), minc))
                 rc == FDiv(FSub(maxc, r), rangec)
                 gc == FDiv(FSub(maxc, g), rangec)
                 bc == FDiv(FSub(maxc, b), rangec)
                 h == IF FEq(r, maxc) THEN FSub(bc, gc)
                      ELSE IF FEq(g, maxc) THEN FSub(FAdd(Frac(2, 1), rc), bc)
                      ELSE FSub(FAdd(Frac(4, 1), gc), rc)
                 h6 == FDiv(h, Frac(6, 1))
             IN  <<Frac(h6[1] % h6[2], h6[2]), l, s>>

\* format(n, '02x') for a channel 0..255
HexDigit == <<"0", "1", "2", "3", "4", "5", "6", "7", "8", "9",
              "a", "b", "c", "d", "e", "f">>
Hex2(n) == <<HexDigit[(n \div 16) + 1], HexDigit[(n % 16) + 1]>>

\* RGB.hex
RGB_hex(rgb) == <<"#">> \o Hex2(rgb[1]) \o Hex2(rgb[2]) \o Hex2(rgb[3])

\* str.lower() on the names the program registers
Lower(name) ==
    IF name = "Black" THEN "black" ELSE IF name = "Red" THEN "red" ELSE name

\* Python's truth value of a name: None and '' are false
NameGiven(name) == name # None /\ name # ""

\* an index that keeps only the colour registered last under a key
DictAppend_replace(d, key, c) ==
    [k \in DOMAIN d \cup {key} |-> IF k = key THEN <<c>> ELSE d[k]]

\* d[key].append(c) on a defaultdict(list)
DictAppend(d, key, c) ==
    [k \in DOMAIN d \cup {key} |->
        IF k \in DOMAIN d
        THEN IF k = key THEN Append(d[k], c) ELSE d[k]
        ELSE <<c>>]

\* d[key] = c
DictSet(d, key, c) ==
    [k \in DOMAIN d \cup {key} |-> IF k = key THEN c ELSE d[k]]

\* the arguments Colors.register is given: hls and xterm may be None, the
\* name may be None or empty
HlsBlack == <<Frac(0, 1), Frac(0, 1), Frac(0, 1)>>
HlsRed == <<Frac(0, 1), Frac(50, 1), Frac(100, 1)>>
RegisterInputs ==
    { Color(<<0, 0, 0>>, HlsBlack, "black", Some(0)),
      Color(<<0, 0, 0>>, Null, "Black", Some(0)),
      Color(<<255, 0, 0>>, HlsRed, "red", Some(9)),
      Color(<<255, 0, 0>>, Null, None, Null),
      Color(<<0, 0, 0>>, HlsBlack, "", Null),
      Color(<<255, 0, 0>>, HlsRed, "black", Some(0)) }

\* Colors.register(rgb, hls, name, xterm), c the Color it builds
register(c) ==
    LET hls == IF c.hls = Null THEN HLS_from_rgb(c.rgb) ELSE c.hls IN
    /\ Len(registered) < MaxRegistered
    /\ IF NameGiven(c.name)
       THEN /\ by_name' = DictAppend(by_name, c.name, c)
            /\ by_lowername' = DictAppend(by_lowername, Lower(c.name), c)
       ELSE UNCHANGED <<by_name, by_lowername>>
    /\ by_hex' = DictAppend(by_hex, RGB_hex(c.rgb), c)
    /\ by_rgb' = DictAppend(by_rgb, c.rgb, c)
    /\ by_hls' = DictAppend(by_hls, hls, c)
    /\ IF c.xterm # Null
       THEN by_xterm' = DictSet(by_xterm, c.xterm[1], c)
       ELSE UNCHANGED by_xterm
    /\ registered' = Append(registered, c)
    /\ UNCHANGED <<streamVars, colorVars, unitVars, environ, lineVars>>

\* the names from_env() looks up in os.environ
Markers == {"JUPYTER_COLUMNS", "JUPYTER_LINES"}
Variables == <<"FORCE_COLOR", "PROGRESSBAR_ENABLE_COLORS", "COLORTERM", "TERM">>
EnvNames == Markers \cup {Variables[i] : i \in DOMAIN Variables}

(* ------------------------ ColorSupport.from_env ----------------------- *)
\* values of environment variables, as sequences of characters
TrueColor == <<"t", "r", "u", "e", "c", "o", "l", "o", "r">>
Bit24 == <<"2", "4", "b", "i", "t">>
Xterm == <<"x", "t", "e", "r", "m">>
Xterm256Color == Xterm \o <<"-", "2", "5", "6", "c", "o", "l", "o", "r">>
XtermColor == Xterm \o <<"-", "c", "o", "l", "o", "r">>
\* what FORCE_COLOR, PROGRESSBAR_ENABLE_COLORS, COLORTERM and TERM may hold:
\* Null when unset
EnvValues == {Null, Some(TrueColor), Some(Bit24), Some(Xterm256Color),
              Some(Xterm), Some(XtermColor)}
\* what JUPYTER_COLUMNS and JUPYTER_LINES may hold
MarkerValues == {Null, Some(<<>>), Some(<<"8", "0">>)}

\* sub in value
Contains(value, sub) ==
    \E i \in 1..(Len(value) - Len(sub) + 1) :
        SubSeq(value, i, i + Len(sub) - 1) = sub

\* max() of two support levels
MaxSupport(a, b) == IF a >= b THEN a ELSE b

\* a loop in which each variable that signals a level replaces the level
\* found so far
RECURSIVE from_env_loop_last_wins(_, _, _, _)
from_env_loop_last_wins(env, order, i, support) ==
    IF i > Len(order) THEN support
    ELSE LET v == env[order[i]] IN
         IF v = Null THEN from_env_loop_last_wins(env, order, i + 1, support)
         ELSE IF v[1] \in {TrueColor, Bit24} THEN XTERM_TRUECOLOR
         ELSE IF Contains(v[1], <<"2", "5", "6">>)
         THEN from_env_loop_last_wins(env, order, i + 1, XTERM_256)
         ELSE IF v[1] = Xterm
         THEN from_env_loop_last_wins(env, order, i + 1, XTERM)
         ELSE from_env_loop_last_wins(env, order, i + 1, support)

\* the loop of from_env over the variables in the given order, from the
\* i-th on, with the support found so far
RECURSIVE from_env_loop(_, _, _, _)
from_env_loop(env, order, i, support) ==
    IF i > Len(order) THEN support
    ELSE LET v == env[order[i]] IN
         IF v = Null THEN from_env_loop(env, order, i + 1, support)
         ELSE IF v[1] \in {TrueColor, Bit24} THEN XTERM_TRUECOLOR
         ELSE IF Contains(v[1], <<"2", "5", "6">>)
         THEN from_env_loop(env, order, i + 1, MaxSupport(XTERM_256, support))
         ELSE IF v[1] = Xterm
         THEN from_env_loop(env, order, i + 1, MaxSupport(XTERM, support))
         ELSE from_env_loop(env, order, i + 1, support)

\* os.environ.get(name) is true: set and not empty
MarkerSet(env, name) == env[name] # Null /\ env[name][1] # <<>>

\* ColorSupport.from_env with the variables examined in the given order
ColorSupport_from_env(env, order) ==
    IF MarkerSet(env, "JUPYTER_COLUMNS") \/ MarkerSet(env, "JUPYTER_LINES")
    THEN XTERM_TRUECOLOR
    ELSE from_env_loop(env, order, 1, NONE)

\* color_support = ColorSupport.from_env()
from_env ==
    /\ color_support' = ColorSupport_from_env(environ, Variables)
    /\ last_call' = "from_env"
    /\ raised' = FALSE
    /\ UNCHANGED <<colors, interpolate, color, origin, ansi, ansi_read>>
    /\ UNCHANGED <<wrapperVars, termVars>>

(* --------------------------- LastLineStream --------------------------- *)
\* s[:n] of a Python string
Slice(s, n) ==
    IF n >= 0
    THEN SubSeq(s, 1, IF n < Len(s) THEN n ELSE Len(s))
    ELSE SubSeq(s, 1, IF Len(s) + n > 0 THEN Len(s) + n ELSE 0)

\* the data handed to write() and, in lists, to writelines()
Data == {<<>>, <<"a">>, <<"a", "b">>, <<"a", NL>>, <<"a", "b", NL>>}
Lines == {<<>>} \cup {<<d>> : d \in Data} \cup {<<d, e>> : d, e \in Data}
\* the sizes handed to read() and readline(); -1 is their default
Sizes == {-1, 0, 1, 2}

LineFrame == UNCHANGED <<wrapperVars, colorVars, last_value, other, environ, registryVars>>

\* LastLineStream.write(data)
LastLineStream_write(data) ==
    /\ line' = data
    /\ written' = Some(data)
    /\ last_call' = "write"
    /\ args' = <<data>>
    /\ returned' = <<>>
    /\ raised' = FALSE
    /\ LineFrame

\* LastLineStream.writelines(lines): the last line, '' when there is none
LastLineStream_writelines(lines) ==
    LET last == IF lines = <<>> THEN <<>> ELSE lines[Len(lines)] IN
    /\ line' = last
    /\ written' = Some(last)
    /\ last_call' = "writelines"
    /\ args' = <<lines>>
    /\ returned' = <<>>
    /\ raised' = FALSE
    /\ LineFrame

\* LastLineStream.read(n)
LastLineStream_read(n) ==
    /\ returned' = Slice(line, n)
    /\ last_call' = "read"
    /\ args' = <<n>>
    /\ raised' = FALSE
    /\ UNCHANGED lineVars
    /\ LineFrame

\* LastLineStream.readline(limit)
LastLineStream_readline(limit) ==
    /\ returned' = Slice(line, limit)
    /\ last_call' = "readline"
    /\ args' = <<limit>>
    /\ raised' = FALSE
    /\ UNCHANGED lineVars
    /\ LineFrame

\* LastLineStream.truncate(size), size Null for None
LastLineStream_truncate(size) ==
    /\ line' = IF size = Null THEN <<>> ELSE Slice(line, size[1])
    /\ written' = Null
    /\ last_call' = "truncate"
    /\ args' = <<size>>
    /\ returned' = <<Len(line')>>
    /\ raised' = FALSE
    /\ LineFrame

\* the colour module as imported with no colour support in the environment,
\* before any gradient is built
NoColors ==
    /\ color_support = NONE
    /\ colors = <<>>
    /\ interpolate = TRUE
    /\ color = Black
    /\ origin = "none"
    /\ ansi = Null
    /\ ansi_read = FALSE

\* an empty dict
EmptyDict == [k \in {} |-> <<>>]

\* nothing compared or styled yet, an empty environment, empty Colors
\* indexes, a LastLineStream never written to
NoTerminal ==
    /\ last_value = Null
    /\ other = Black
    /\ args = <<>>
    /\ returned = <<>>
    /\ environ = [name \in EnvNames |-> Null]
    /\ by_name = EmptyDict
    /\ by_lowername = EmptyDict
    /\ by_hex = EmptyDict
    /\ by_rgb = EmptyDict
    /\ by_hls = EmptyDict
    /\ by_xterm = EmptyDict
    /\ registered = <<>>
    /\ line = <<>>
    /\ written = Null

\* StreamWrapper.__init__ with neither WRAP_STDOUT nor WRAP_STDERR set
StreamsIdle ==
    /\ stream = [s \in Streams |-> Original]
    /\ sys_stream = [s \in Streams |-> Original]
    /\ wio = [s \in Streams |-> WrappingIO_init({})]
    /\ wrapped = [s \in Streams |-> 0]
    /\ wrapped_excepthook = 0
    /\ sys_excepthook = "original"
    /\ capturing = 0
    /\ listeners = {}
    /\ target = [s \in Streams |-> <<>>]
    /\ unflushed = [s \in Streams |-> FALSE]
    /\ notified = {}
    /\ depth = [s \in Streams |-> 0]
    /\ first = [s \in Streams |-> "none"]
    /\ last_call = "none"
    /\ raised = FALSE

\* the program after import
Init ==
    /\ StreamsIdle
    /\ NoColors
    /\ NoTerminal

FaultChoices == [Streams -> Faults]

\* every target supports write() and flush()
Next ==
    \/ wrap_stdout
    \/ wrap_stderr
    \/ unwrap_stdout
    \/ unwrap_stderr
    \/ unwrap_excepthook
    \/ \E bar \in SessionBars : start_capturing(bar, NoFault)
    \/ \E bar \in SessionBars : stop_capturing(bar, NoFault)
    \/ \E s \in Streams, value \in Chunks : write(s, value, "ok")
    \/ \E s \in Streams : sys_flush(s)
    \/ \E s \in Streams : wio__flush(s, "ok")
    \/ flush(NoFault)
    \/ excepthook(NoFault)

Spec == Init /\ [][Next]_vars

\* a target may raise io.UnsupportedOperation from write() or from flush()
FaultNext ==
    \/ wrap_stdout
    \/ wrap_stderr
    \/ unwrap_stdout
    \/ unwrap_stderr
    \/ \E bar \in SessionBars, f \in FaultChoices : start_capturing(bar, f)
    \/ \E bar \in SessionBars, f \in FaultChoices : stop_capturing(bar, f)
    \/ \E s \in Streams, fault \in Faults : write(s, <<"a">>, fault)
    \/ \E f \in FaultChoices : flush(f)
    \/ \E f \in FaultChoices : excepthook(f)

FaultSpec == Init /\ [][FaultNext]_vars

(* ---------------------- a WrappingIO on its own ------------------------ *)
\* WrappingIO(target, capturing, listeners) built by its user around stdout
WioInit ==
    /\ stream = [s \in Streams |-> Original]
    /\ sys_stream = [s \in Streams |-> Original]
    /\ \E cap \in BOOLEAN, lst \in SUBSET Bars :
          /\ wio = [s \in Streams |->
                      IF s = "stdout"
                      THEN [WrappingIO_init(lst) EXCEPT !.capturing = cap]
                      ELSE WrappingIO_init({})]
          /\ listeners = lst
    /\ wrapped = [s \in Streams |-> 0]
    /\ wrapped_excepthook = 0
    /\ sys_excepthook = "original"
    /\ capturing = 0
    /\ target = [s \in Streams |-> <<>>]
    /\ unflushed = [s \in Streams |-> FALSE]
    /\ notified = {}
    /\ depth = [s \in Streams |-> 0]
    /\ first = [s \in Streams |-> "none"]
    /\ last_call = "none"
    /\ raised = FALSE
    /\ NoColors
    /\ NoTerminal

WioFrame ==
    UNCHANGED <<stream, sys_stream, wrapped, wrapped_excepthook, sys_excepthook,
                capturing, listeners, depth, first, colorVars, termVars>>

\* WrappingIO.write(value)
wio_write(value, fault) ==
    LET r == WrappingIO_write(wio["stdout"], target["stdout"], unflushed["stdout"],
                              value, listeners, fault) IN
    /\ Room(value)
    /\ wio' = [wio EXCEPT !["stdout"] = r.wio]
    /\ target' = [target EXCEPT !["stdout"] = r.target]
    /\ unflushed' = [unflushed EXCEPT !["stdout"] = r.unflushed]
    /\ notified' = r.notified
    /\ last_call' = "write"
    /\ raised' = r.raised
    /\ WioFrame

\* WrappingIO.flush()
wio_flush ==
    /\ wio' = [wio EXCEPT !["stdout"] = WrappingIO_flush(wio["stdout"])]
    /\ notified' = {}
    /\ last_call' = "flush"
    /\ raised' = FALSE
    /\ UNCHANGED <<target, unflushed>>
    /\ WioFrame

\* WrappingIO._flush()
wio_underscore_flush(fault) ==
    LET r == WrappingIO__flush(wio["stdout"], target["stdout"], unflushed["stdout"],
                               fault) IN
    /\ wio' = [wio EXCEPT !["stdout"] = r.wio]
    /\ target' = [target EXCEPT !["stdout"] = r.target]
    /\ unflushed' = [unflushed EXCEPT !["stdout"] = r.unflushed]
    /\ notified' = {}
    /\ last_call' = "_flush"
    /\ raised' = r.raised
    /\ WioFrame

\* the capturing attribute set from outside, as update_capturing does
wio_set_capturing(cap) ==
    /\ wio' = [wio EXCEPT !["stdout"].capturing = cap]
    /\ notified' = {}
    /\ last_call' = "capturing"
    /\ raised' = FALSE
    /\ UNCHANGED <<target, unflushed>>
    /\ WioFrame

WioNext ==
    \/ \E value \in Chunks, fault \in Faults : wio_write(value, fault)
    \/ wio_flush
    \/ \E fault \in Faults : wio_underscore_flush(fault)
    \/ \E cap \in BOOLEAN : wio_set_capturing(cap)

WioSpec == WioInit /\ [][WioNext]_vars

(* ------------------------- colours on their own ------------------------ *)
\* color_support is whatever ColorSupport.from_env() found at import; one
\* ColorGradient(*colors, interpolate=...) has been built
ColorInit ==
    /\ StreamsIdle
    /\ color_support \in ColorSupports
    /\ colors \in Gradients
    /\ interpolate \in BOOLEAN
    /\ color = Black
    /\ origin = "none"
    /\ ansi = Null
    /\ ansi_read = FALSE
    /\ NoTerminal

ColorNext ==
    \/ \E support \in ColorSupports : force_color_support(support)
    \/ \E c \in ColorInputs : Color_new(c)
    \/ \E value \in Values : get_color(value)
    \/ read_ansi

ColorSpec == ColorInit /\ [][ColorNext]_vars

(* ------------------ two colours, compared and styled ------------------- *)
\* two Colors built by the program under some colour support level
UnitInit ==
    /\ StreamsIdle
    /\ color_support \in ColorSupports
    /\ colors = <<>>
    /\ interpolate = TRUE
    /\ color \in ColorInputs
    /\ origin = "Color"
    /\ ansi = Null
    /\ ansi_read = FALSE
    /\ last_value = Null
    /\ other \in ColorInputs
    /\ args = <<>>
    /\ returned = <<>>
    /\ environ = [name \in EnvNames |-> Null]
    /\ by_name = EmptyDict
    /\ by_lowername = EmptyDict
    /\ by_hex = EmptyDict
    /\ by_rgb = EmptyDict
    /\ by_hls = EmptyDict
    /\ by_xterm = EmptyDict
    /\ registered = <<>>
    /\ line = <<>>
    /\ written = Null

UnitNext ==
    \/ compare_colors
    \/ hash_colors
    \/ \E style \in DOMAIN Styles, text \in Texts : apply_style(style, text)

UnitSpec == UnitInit /\ [][UnitNext]_vars

(* ----------------------- a gradient on its own ------------------------- *)
LongGradients == UNION {[1..n -> Palette] : n \in 1..MaxStops}
FineValues == Sentinels \cup {Frac(k, Steps) : k \in -1..(Steps + 1)}

\* one ColorGradient(*colors, interpolate=...) has been built
GradientInit ==
    /\ StreamsIdle
    /\ color_support = NONE
    /\ colors \in LongGradients
    /\ interpolate \in BOOLEAN
    /\ color = Black
    /\ origin = "none"
    /\ ansi = Null
    /\ ansi_read = FALSE
    /\ NoTerminal

GradientNext == \E v \in FineValues : get_color(v)

GradientSpec == GradientInit /\ [][GradientNext]_vars

(* ------------------------ the Colors registry -------------------------- *)
RegistryNext == \E c \in RegisterInputs : register(c)

RegistrySpec == Init /\ [][RegistryNext]_vars

(* ----------------------- the environment ------------------------------- *)
\* the process starts with some environment; from_env has not been called
EnvInit ==
    /\ StreamsIdle
    /\ NoColors
    /\ last_value = Null
    /\ other = Black
    /\ args = <<>>
    /\ returned = <<>>
    /\ environ \in [EnvNames -> EnvValues \cup MarkerValues]
    /\ \A name \in Markers : environ[name] \in MarkerValues
    /\ \A name \in EnvNames \ Markers : environ[name] \in EnvValues
    /\ by_name = EmptyDict
    /\ by_lowername = EmptyDict
    /\ by_hex = EmptyDict
    /\ by_rgb = EmptyDict
    /\ by_hls = EmptyDict
    /\ by_xterm = EmptyDict
    /\ registered = <<>>
    /\ line = <<>>
    /\ written = Null

EnvNext == from_env

EnvSpec == EnvInit /\ [][EnvNext]_vars

(* ----------------------- a LastLineStream ------------------------------ *)
LineNext ==
    \/ \E data \in Data : LastLineStream_write(data)
    \/ \E lines \in Lines : LastLineStream_writelines(lines)
    \/ \E n \in Sizes : LastLineStream_read(n)
    \/ \E limit \in Sizes : LastLineStream_readline(limit)
    \/ \E size \in {Null} \cup {Some(n) : n \in Sizes} : LastLineStream_truncate(size)

LineSpec == Init /\ [][LineNext]_vars

(* ------------------------------ claims --------------------------------- *)
\* C1: wrapping is reference-counted per stream. While wrap calls on a
\* stream are outstanding (more wraps than unwraps) the process-wide handle is
\* the WrappingIO that the first of them installed, and once every wrap has
\* been matched by an unwrap the handle is the original stream again.
C1_RefCountedWrap ==
    \A s \in Streams :
        /\ depth[s] > 0 => sys_stream[s] = Wrapping /\ first[s] = "current"
        /\ depth[s] = 0 => sys_stream[s] = Original

\* two wraps of stdout outstanding, stderr wrapped and unwrapped again
C1_Witness ==
    /\ depth["stdout"] = 2 /\ sys_stream["stdout"] = Wrapping
    /\ depth["stderr"] = 0 /\ IsWrappingIO(stream["stderr"])

\* what the buffer of s held has reached the target of s, in order
Delivered(s, extra) ==
    /\ wio'[s].buffer = <<>>
    /\ target'[s] = target[s] \o wio[s].buffer \o extra

\* C2: whenever stop_capturing brings the capture count back to 0, every
\* WrappingIO's buffered text is in its target, in write order, and no
\* WrappingIO buffer still holds content.
C2_StopCapturingFlushes ==
    [][capturing = 1 /\ capturing' = 0
         => \A s \in Streams : IsWrappingIO(stream[s]) => Delivered(s, <<>>)]_vars

\* C3: while a wrapped stream is capturing, a write with a newline runs
\* update() on every listener registered with the stream wrapper, and a write
\* without a newline runs none.
C3_NewlineNotifiesListeners ==
    [][\A s \in Streams, value \in Chunks :
          write(s, value, "ok") /\ IsWrappingIO(sys_stream[s]) /\ wio[s].capturing
            => notified' = IF HasNewline(value) THEN listeners ELSE {}]_vars

\* C4: while WrappingIO.capturing is true, write(value) appends value to the
\* buffer only; the target keeps its content and is not flushed; a value with
\* a newline sets needs_clear.
C4_CapturedWriteIsBuffered ==
    [][last_call' = "write" /\ wio["stdout"].capturing
         => /\ \E value \in Chunks :
                  /\ wio'["stdout"].buffer = wio["stdout"].buffer \o value
                  /\ HasNewline(value) => wio'["stdout"].needs_clear
            /\ target' = target
            /\ unflushed' = unflushed
            /\ ~raised']_vars

\* text with a newline sits in the buffer of a capturing WrappingIO whose
\* target has received nothing
C4_Witness ==
    /\ last_call = "write"
    /\ wio["stdout"].capturing
    /\ wio["stdout"].buffer = <<"a", NL>>
    /\ wio["stdout"].needs_clear
    /\ target["stdout"] = <<>>

\* what flush() and _flush() are claimed to do alike
MovesBuffer ==
    /\ wio'["stdout"].buffer = <<>>
    /\ target'["stdout"] = target["stdout"] \o wio["stdout"].buffer
    /\ ~wio'["stdout"].needs_clear
    /\ ~unflushed'["stdout"]

C6_CapturingFollowsCount ==
    \A s \in Streams :
        sys_stream[s] = Wrapping => (wio[s].capturing <=> capturing > 0)

Raises(s, f) ==
    /\ wrapped[s] > 0
    /\ IsWrappingIO(stream[s])
    /\ WrappingIO__flush(wio[s], target[s], unflushed[s], f[s]).raised

\* C8: when flushing the target of a wrapped stream raises an
\* unsupported-operation error in StreamWrapper.flush(), the call returns,
\* that stream is Unwrapped (wrap count 0, process-wide handle the original
\* stream) and the other stream is still flushed.
C8_UnsupportedFlushUnwraps ==
    [][\A f \in FaultChoices, s \in Streams :
          flush(f) /\ Raises(s, f)
            => /\ wrapped'[s] = 0
               /\ sys_stream'[s] = Original
               /\ \A o \in Streams \ {s} :
                     wrapped[o] > 0 /\ IsWrappingIO(stream[o]) /\ f[o] = "ok"
                       => Delivered(o, <<>>)]_vars

\* the payload the support-level table gives for colour c
AnsiTable(c, support) ==
    IF support = XTERM_TRUECOLOR
    THEN Some(<<2, c.rgb[1], c.rgb[2], c.rgb[3]>>)
    ELSE IF c.xterm # Null THEN Some(<<5, c.xterm[1]>>)
    ELSE IF support = XTERM_256 THEN Some(<<5, RGB_to_ansi_256(c.rgb)>>)
    ELSE IF support = XTERM THEN Some(<<5, RGB_to_ansi_16(c.rgb)>>)
    ELSE Null

\* C9: Color.ansi follows the support-level table for every Color: under
\* truecolor "2;R;G;B"; otherwise "5;<xterm>" when the colour carries an xterm
\* index, 0 included; otherwise the RGB-derived 256 or 16 index under 256- or
\* 16-colour support; otherwise null.
C9_AnsiFollowsTable ==
    ansi_read => ansi = AnsiTable(color, color_support)

\* the gradient in use is built from named colours that have xterm indices
NamedXtermGradient ==
    /\ colors # <<>>
    /\ \A i \in DOMAIN colors : colors[i].name # None /\ colors[i].xterm # Null

\* C10: for a colour returned by a gradient built from named colours with
\* xterm indices, ansi is None under NONE and starts with "5;" under XTERM_256.
C10_GradientAnsiBySupport ==
    ansi_read /\ origin = "get_color" /\ NamedXtermGradient
      => /\ color_support = NONE => ansi = Null
         /\ color_support = XTERM_256 => ansi # Null /\ ansi[1][1] = 5

\* C11: Color equality and hash depend on RGB only: two Colors with the same
\* rgb compare equal and hash equal whatever their name, xterm or hls, and two
\* Colors with different rgb compare unequal.
C11_EqualityByRgb ==
    /\ last_call = "__eq__" => (returned <=> color.rgb = other.rgb)
    /\ last_call = "__hash__" => (color.rgb = other.rgb => returned[1] = returned[2])

\* C16: when a colour's ansi payload is null, applying its fg, bg or
\* underline style to a text gives ESC[<start_code>m, the text, ESC[<end_code>m.
C16_NullAnsiOmitsColour ==
    last_call = "SGRColor" /\ Color_ansi(color, color_support) = Null
      => returned = SGR_start_template(Styles[args[1]][1]) \o args[2]
                      \o SGR_end_template(Styles[args[1]][2])

\* the value get_color was given last is a number, and the number
IsNumber == last_value # Null /\ last_value[1] \notin Sentinels
Asked == last_value[1]

\* x lies between a and b, whichever is the larger
Between(x, a, b) == (a <= x /\ x <= b) \/ (b <= x /\ x <= a)

\* C12: for a gradient of n >= 2 colours with an interpolation function and
\* 0 < v < 1, get_color(v) returns a colour every RGB channel of which lies
\* between the channels of the two adjacent colours colors[i], colors[i+1]
\* whose segment [i/(n-1), (i+1)/(n-1)] holds v.
C12_InterpolatesBoundingColours ==
    /\ interpolate
    /\ Len(colors) >= 2
    /\ IsNumber
    /\ FLess(Frac(0, 1), Asked) /\ FLess(Asked, Frac(1, 1))
    => /\ origin = "get_color"
       /\ \E i \in 1..(Len(colors) - 1) :
             /\ ~FLess(Asked, Frac(i - 1, Len(colors) - 1))
             /\ ~FLess(Frac(i, Len(colors) - 1), Asked)
             /\ \A ch \in 1..3 :
                   Between(color.rgb[ch], colors[i].rgb[ch], colors[i + 1].rgb[ch])

\* C13: get_color returns the first colour for the undefined sentinel, the
\* unknown-length sentinel and v <= 0, the last colour for v >= 1, and the
\* only colour of a single-colour gradient for every v.
C13_SentinelsAndEnds ==
    last_value # Null =>
        /\ (~IsNumber \/ ~FLess(Frac(0, 1), Asked))
             => origin = "get_color" /\ color = colors[1]
        /\ (IsNumber /\ ~FLess(Asked, Frac(1, 1)))
             => origin = "get_color" /\ color = colors[Len(colors)]
        /\ Len(colors) = 1 => origin = "get_color" /\ color = colors[1]

\* a three-colour gradient asked for a value above 1 gave its last colour,
\* which is not its first
C13_Witness ==
    /\ Len(colors) = 3
    /\ colors[3] # colors[1]
    /\ last_value = Some(Frac(Steps + 1, Steps))
    /\ origin = "get_color"
    /\ color = colors[3]

\* the colours registered so far whose key, under Key, is k, in call order
RegisteredUnder(Key(_), k) ==
    LET Test(c) == Key(c) = k IN SelectSeq(registered, Test)

\* index d holds, for every key some registered colour among cs has, exactly
\* the colours registered under that key, in registration order
IndexMatches(d, Key(_), cs) ==
    /\ DOMAIN d = {Key(cs[i]) : i \in DOMAIN cs}
    /\ \A k \in DOMAIN d : d[k] = RegisteredUnder(Key, k)

NameKey(c) == c.name
LowerKey(c) == Lower(c.name)
HexKey(c) == RGB_hex(c.rgb)
RgbKey(c) == c.rgb
Named == LET Test(c) == NameGiven(c.name) IN SelectSeq(registered, Test)
Indexed == LET Test(c) == c.xterm # Null IN SelectSeq(registered, Test)

\* C14: after any sequence of Colors.register calls, the by-name,
\* by-lowercase-name, by-hex and by-RGB indexes map each key to exactly the
\* colours registered under it (a name that is None or empty is no key), in
\* registration order with duplicates kept, and by-xterm maps each xterm index
\* to the colour registered last with it.
C14_IndexesFollowRegistrations ==
    /\ DOMAIN by_name = {Named[i].name : i \in DOMAIN Named}
    /\ \A k \in DOMAIN by_name :
          by_name[k] = (LET Test(c) == c.name = k IN SelectSeq(Named, Test))
    /\ DOMAIN by_lowername = {Lower(Named[i].name) : i \in DOMAIN Named}
    /\ \A k \in DOMAIN by_lowername :
          by_lowername[k] = (LET Test(c) == Lower(c.name) = k IN SelectSeq(Named, Test))
    /\ IndexMatches(by_hex, HexKey, registered)
    /\ IndexMatches(by_rgb, RgbKey, registered)
    /\ DOMAIN by_xterm = {Indexed[i].xterm[1] : i \in DOMAIN Indexed}
    /\ \A x \in DOMAIN by_xterm :
          LET same == (LET Test(c) == c.xterm[1] = x IN SelectSeq(Indexed, Test))
          IN  by_xterm[x] = same[Len(same)]

\* "black" was registered twice with different RGB, once more as "Black",
\* all three with xterm index 0
C14_Witness ==
    /\ Len(registered) = 3
    /\ "black" \in DOMAIN by_name /\ Len(by_name["black"]) = 2
    /\ by_name["black"][1].rgb # by_name["black"][2].rgb
    /\ Len(by_lowername["black"]) = 3
    /\ by_xterm[0] = registered[3]
    /\ registered[3] # registered[1]

\* the level a variable's value signals
Signalled(v) ==
    IF v = Null THEN NONE
    ELSE IF v[1] \in {TrueColor, Bit24} THEN XTERM_TRUECOLOR
    ELSE IF Contains(v[1], <<"2", "5", "6">>) THEN XTERM_256
    ELSE IF v[1] = Xterm THEN XTERM
    ELSE NONE

\* the orders in which the four variables can be examined
Orders ==
    {o \in [1..Len(Variables) -> {Variables[i] : i \in DOMAIN Variables}] :
        \A i, j \in DOMAIN o : i # j => o[i] # o[j]}

Jupyter == MarkerSet(environ, "JUPYTER_COLUMNS") \/ MarkerSet(environ, "JUPYTER_LINES")

C17_BalancedWrappingRestores ==
    (\A s \in Streams : depth[s] = 0)
      => /\ \A s \in Streams : sys_stream[s] = Original
         /\ sys_excepthook = "original"

\* C18: after any sequence of write(d) / writelines(lines) calls, read() and
\* readline() with their default argument return the data written last (the
\* last element for writelines), whole and unchanged.
C18_ReadReturnsLastWritten ==
    /\ last_call \in {"read", "readline"}
    /\ args = <<-1>>
    /\ written # Null
    => returned = written[1]

====
